---- MODULE Spec2Model ----
(***************************************************************************)
(* Identity and data-access service (mohammedfaazk/Backend).               *)
(*                                                                         *)
(* The repository holds several near-duplicate builds of one service.      *)
(* Three of them are modelled; the variable `build` says which is          *)
(* deployed and never changes:                                             *)
(*   "part_004"  the full application (src/unnamed/part_004 lines 1-662)   *)
(*               with the db module of the same file (lines 664-810);      *)
(*   "server"    src/server.js with src/db.js;                             *)
(*   "part_005"  src/server.js with the db module src/unnamed/part_005;    *)
(*   "part_002"  src/unnamed/part_002 with src/db.js;                      *)
(*   "part_001"  the application of src/unnamed/part_001 lines 32-218,     *)
(*               whose user routes query the pool directly, with db.js.    *)
(*                                                                         *)
(* JavaScript runs one callback to completion: an action of this module is *)
(* the code between two awaits.  A request is a record; the requests in    *)
(* the process form the bag `reqs` (two requests in the same local state   *)
(* are two copies of one record).                                          *)
(***************************************************************************)
EXTENDS Integers, Sequences, FiniteSets, Bags, TLC

VARIABLES
    build,        \* which build of the sources is deployed
    dbConnected,  \* part_004:45  let dbConnected
    pool,         \* db.js:25     const pool = new Pool(dbConfig)
    users,        \* the store's users table: a set of rows
    reqs,         \* the requests of the process, each with its handler's locals
    now,          \* the clock, in token time units
    proc          \* the process: startServer's position, the http server, exit

vars == <<build, dbConnected, pool, users, reqs, now, proc>>

----------------------------------------------------------------------------
(* Bounds of the model *)

\* requests that arrive in one behaviour of the application specifications
NumRequests == 2

\* probe requests that arrive in one behaviour of SpecQuery
NumProbes == 3

\* callers that compete for the pool in SpecPool: one more than the pool holds
NumCallers == 11

----------------------------------------------------------------------------
(* Builds *)

Builds == {"part_004", "server", "part_005", "part_002"}

\* the application is the full one of part_004 (guards, validation, is_active)
FullApp == build = "part_004"

\* the application is part_002: server.js's routes with a dbConnected flag
Part002 == build = "part_002"

\* the application is part_001: no auth routes, user routes on pool.query
Part001 == build = "part_001"

\* GET /health probes with safeQuery behind the dbConnected flag (part_004:96, part_002:54)
HealthByQuery == build \in {"part_004", "part_002"}

----------------------------------------------------------------------------
(* The pool: pg.Pool as configured by dbConfig *)

\* a pool configured twice as large
dbConfigMaxDoubled == 2 * 10

\* dbConfig.max
dbConfigMax == 10

\* new Pool(dbConfig); ending: pool.end() has been called
NewPool == [max |-> dbConfigMax, checkedOut |-> 0, ending |-> FALSE]

\* pool.connect() can hand out a client only while fewer than max are out
PoolHasRoom == pool.checkedOut < pool.max

----------------------------------------------------------------------------
(* The process *)

\* the process while startServer runs its first probe; probes, waits and succeeded
\* are history: the probes startServer has called, the waits it has begun, and
\* whether a probe of its has returned true
Starting ==
    [phase |-> "starting", retryCount |-> 0, signal |-> FALSE, closed |-> FALSE,
     exitCode |-> -1, probes |-> 1, waits |-> 0, succeeded |-> FALSE]

\* the process once app.listen() was called
Serving(p) == [p EXCEPT !.phase = "listening"]

\* the http server takes new requests
Accepting == proc.phase = "listening"

\* process.exit(code)
Exit(p, code) == [p EXCEPT !.phase = "exited", !.exitCode = code]

\* the process has not exited: its callbacks still run
Running == proc.phase # "exited"

----------------------------------------------------------------------------
(* Requests *)

NoResult == [pending |-> TRUE]
NoBody == [name |-> "", email |-> <<>>, password |-> ""]
NoUser == [id |-> 0]

\* the state of a request object and of its handler's locals
NewRequest ==
    [route    |-> "",          \* the route that handles it
     body     |-> NoBody,      \* req.body
     arrived  |-> 0,           \* history: the time the request arrived
     header   |-> <<>>,        \* req.headers['authorization'], <<>> when absent
     hasAuth  |-> FALSE,       \* whether the Authorization header is present
     at       |-> "",          \* the await the handler is suspended at
     fn       |-> "",          \* the db function running: safeQuery, testConnection
     sq       |-> "none",      \* where that function is: connecting, querying, direct
     client   |-> "undefined", \* its local `client`
     stmt     |-> [op |-> "none"],
     acquired |-> 0,           \* clients pool.connect() handed to this request
     released |-> 0,           \* client.release() calls of this request
     threw    |-> FALSE,       \* the db function threw to its caller
     ret      |-> NoResult,    \* what the last safeQuery returned
     probe    |-> "none",      \* what the last testConnection returned
     user     |-> NoUser,      \* req.user
     verified |-> 0,           \* jwt.verify calls of the middleware
     nexts    |-> 0,           \* next() calls of the middleware
     queries  |-> 0,           \* statements the handler gave to safeQuery
     row      |-> NoUser,      \* the handler's local `user`
     existingUser |-> NoResult, \* signup's local `existingUser`
     seen     |-> {},          \* history: the rows with the request's email when it arrived
     status   |-> 0,           \* res.status, 0 while no response is sent
     msg      |-> "",          \* the response's message
     data     |-> NoUser,      \* the response's data
     token    |-> <<>>,        \* the response's token
     sent     |-> 0]           \* responses sent

InFlight == BagToSet(reqs)

Swap(q, q2) == reqs' = (reqs (-) SetToBag({q})) (+) SetToBag({q2})

Accept(q) == reqs' = reqs (+) SetToBag({q})

\* res.status(s).json({message: m}); the handler is over
Respond(q, s, m) ==
    [q EXCEPT !.status = s, !.msg = m, !.sent = @ + 1, !.at = "done"]

\* res.status(s).json({message: m, data: d, token: t}); the handler is over
RespondWith(q, s, m, d, t) ==
    [Respond(q, s, m) EXCEPT !.data = d, !.token = t]

\* connections this request has taken from the pool and not given back
Held(q) == q.acquired - q.released

----------------------------------------------------------------------------
(* Strings: a string the code takes apart is a sequence of characters *)

\* String.prototype.toLowerCase, on the letters the inputs use
LowerChar(c) ==
    CASE c = "A" -> "a"
      [] c = "B" -> "b"
      [] c = "X" -> "x"
      [] OTHER -> c

toLowerCase(s) == [i \in 1..Len(s) |-> LowerChar(s[i])]

\* String.prototype.trim
RECURSIVE trim(_)
trim(s) ==
    IF s = <<>> THEN s
    ELSE IF Head(s) = " " THEN trim(Tail(s))
    ELSE IF s[Len(s)] = " " THEN trim(SubSeq(s, 1, Len(s) - 1))
    ELSE s

\* [^\s@]+
NoSpaceNoAt(s) == Len(s) > 0 /\ \A i \in 1..Len(s) : s[i] \notin {" ", "@"}

\* emailRegex.test(s) for /^[^\s@]+@[^\s@]+\.[^\s@]+$/
emailRegexTest(s) ==
    \E i \in 1..Len(s), j \in 1..Len(s) :
        /\ s[i] = "@" /\ s[j] = "." /\ i < j
        /\ NoSpaceNoAt(SubSeq(s, 1, i - 1))
        /\ NoSpaceNoAt(SubSeq(s, i + 1, j - 1))
        /\ NoSpaceNoAt(SubSeq(s, j + 1, Len(s)))

\* String.prototype.split(' '): the segments between single spaces
RECURSIVE split(_)
split(s) ==
    IF \A i \in 1..Len(s) : s[i] # " " THEN <<s>>
    ELSE LET i == CHOOSE k \in 1..Len(s) :
                      s[k] = " " /\ \A m \in 1..(k - 1) : s[m] # " "
         IN  <<SubSeq(s, 1, i - 1)>> \o split(SubSeq(s, i + 1, Len(s)))

----------------------------------------------------------------------------
(* The store *)

ConnectError == "timeout exceeded when trying to connect"
QueryError == "Query read timeout"
UniqueError == "duplicate key value violates unique constraint"

\* bcrypt.hash(plain, rounds): an opaque salted digest of plain
bcryptHash(plain, rounds) == [alg |-> "bcrypt", cost |-> rounds, digest |-> plain]

\* a comparison that accepts every password for a well formed hash
bcryptCompareAny(plain, hash) == hash.alg = "bcrypt"

\* bcrypt.compare(plain, hash)
bcryptCompare(plain, hash) == hash.digest = plain

\* id SERIAL PRIMARY KEY: the rows are never deleted
NextId == Cardinality(users) + 1

\* the row INSERT INTO users (name, email, password_hash) creates:
\* is_active BOOLEAN DEFAULT TRUE, last_login NULL (0)
NewRow(stmt) ==
    [id |-> NextId, name |-> stmt.name, email |-> stmt.email,
     password_hash |-> stmt.password_hash, is_active |-> TRUE, last_login |-> 0]

\* the columns a SELECT or RETURNING list names
Columns(row, cols) == [c \in cols |-> row[c]]

\* the rows a statement returns
Rows(stmt) ==
    CASE stmt.op = "now" -> {[current_time |-> now]}
      [] stmt.op = "select_by_email" ->
           {Columns(u, stmt.cols) : u \in {x \in users : x.email = stmt.email}}
      [] stmt.op = "select_by_id" ->
           {Columns(u, stmt.cols) : u \in {x \in users : x.id = stmt.id}}
      [] stmt.op = "insert_user" -> {Columns(NewRow(stmt), stmt.cols)}
      [] stmt.op = "select_users" ->
           {Columns(u, stmt.cols) : u \in {x \in users : stmt.all \/ x.is_active}}
      [] OTHER -> {}

\* the users table after a statement
Effect(stmt) ==
    CASE stmt.op = "insert_user" -> users \cup {NewRow(stmt)}
      [] stmt.op = "update_last_login" ->
           {IF u.id = stmt.id THEN [u EXCEPT !.last_login = now] ELSE u : u \in users}
      [] OTHER -> users

\* email VARCHAR(255) UNIQUE NOT NULL: the store rejects a second row with the email;
\* password_hash VARCHAR(255) NOT NULL: it rejects a row that has no hash
Violates(stmt) ==
    \/ /\ stmt.op = "insert_user"
       /\ \E u \in users : u.email = stmt.email
    \/ stmt.op = "insert_name_email"

----------------------------------------------------------------------------
(* The db module: safeQuery and testConnection *)

\* const safeQuery = async (text, params) => { let client; try { client = await pool.connect();
safeQuery(q, at, stmt) ==
    [q EXCEPT !.at = at, !.fn = "safeQuery", !.sq = "connecting",
              !.client = "undefined", !.stmt = stmt, !.queries = @ + 1]

\* const testConnection = async () => { let client; try { client = await pool.connect();
testConnection(q, at) ==
    [q EXCEPT !.at = at, !.fn = "testConnection", !.sq = "connecting",
              !.client = "undefined", !.stmt = [op |-> "now"]]

\* client = <the client pool.connect() resolved with>; await client.query(text, params)
ClientAssigned(q) ==
    [q EXCEPT !.client = "client", !.acquired = @ + 1, !.sq = "querying"]

\* client.release()
Release(q) == [q EXCEPT !.released = @ + 1]

\* if (client) client.release()
ReleaseIfClient(q) == IF q.client # "undefined" THEN Release(q) ELSE q

\* the function is over: its locals are gone
Returned(q) == [q EXCEPT !.sq = "none", !.client = "undefined"]

\* a safeQuery that returns the rows and keeps its client checked out
safeQueryTryKeep(q, rows) ==
    Returned([q EXCEPT !.ret = [success |-> TRUE, data |-> rows]])

\* safeQuery, the query resolved: return { success: true, data: result }, client released
safeQueryTry(q, rows) ==
    Returned([Release(q) EXCEPT !.ret = [success |-> TRUE, data |-> rows]])

\* a catch that returns the failure and leaves the client checked out
safeQueryCatchNoRelease(q, err) ==
    Returned([q EXCEPT !.ret = [success |-> FALSE, error |-> err]])

\* a catch that releases the client and throws err again
safeQueryCatchRethrow(q, err) ==
    Returned([ReleaseIfClient(q) EXCEPT !.threw = TRUE])

\* safeQuery, pool.connect() or the query rejected with err:
\* return { success: false, error: err.message }, client released if there is one
safeQueryCatch(q, err) ==
    Returned([ReleaseIfClient(q) EXCEPT !.ret = [success |-> FALSE, error |-> err]])

\* a probe that releases in its try block and again in a finally block
testConnectionTryTwice(q) ==
    Returned([Release(Release(q)) EXCEPT !.probe = "true"])

\* testConnection, the query resolved: return true, client released
testConnectionTry(q) ==
    Returned([Release(q) EXCEPT !.probe = "true"])

\* testConnection, pool.connect() or the query rejected
testConnectionCatch(q) ==
    CASE build \in {"server", "part_002", "part_001"} ->
           \* db.js: return false; finally { if (client) client.release() }
           Returned([ReleaseIfClient(q) EXCEPT !.probe = "false"])
      [] build = "part_005" ->
           \* part_005: client is a const of the try block; the catch returns false
           Returned([q EXCEPT !.probe = "false"])
      [] OTHER ->
           \* part_004: if (client) client.release(); return await testDirectConnection()
           [ReleaseIfClient(q) EXCEPT !.sq = "direct", !.client = "undefined"]

\* testDirectConnection: connect, query and end of a Client of its own
testDirectConnection(q, ok) ==
    Returned([q EXCEPT !.probe = IF ok THEN "true" ELSE "false"])

----------------------------------------------------------------------------
(* Tokens: jsonwebtoken *)

\* JWT_SECRET, and a key that is not the server's
JWT_SECRET == "k"
OtherSecret == "z"

Digits == <<"0", "1", "2", "3", "4", "5", "6", "7", "8", "9">>
ToDigit(n) == Digits[n + 1]
IsDigit(c) == \E n \in 0..9 : Digits[n + 1] = c
FromDigit(c) == CHOOSE n \in 0..9 : Digits[n + 1] = c

\* jwt.sign(payload, secret, { expiresIn }): the signature, then the claims
\* id, iat, exp and email
jwtSign(payload, secret, expiresIn) ==
    <<secret, ToDigit(payload.id), ToDigit(now), ToDigit(now + expiresIn)>> \o payload.email

\* the token is well formed
jwtDecodes(t) == Len(t) >= 4 /\ IsDigit(t[2]) /\ IsDigit(t[3]) /\ IsDigit(t[4])

\* the claims of a well formed token
jwtPayload(t) ==
    [id |-> FromDigit(t[2]), email |-> SubSeq(t, 5, Len(t)),
     iat |-> FromDigit(t[3]), exp |-> FromDigit(t[4])]

\* a verification that ignores the expiry: { ignoreExpiration: true }
jwtVerifiesIgnoreExpiration(t, secret) ==
    /\ jwtDecodes(t)
    /\ t[1] = secret

\* jwt.verify(token, secret) calls back without err: the signature is the
\* secret's, and the expiry has not passed
jwtVerifies(t, secret) ==
    /\ jwtDecodes(t)
    /\ t[1] = secret
    /\ now < jwtPayload(t).exp

----------------------------------------------------------------------------
(* The auth gateway *)

\* an extraction that takes the last segment: authHeader.split(' ').pop()
ExtractTokenLast(q) ==
    IF ~q.hasAuth THEN [falsy |-> TRUE, text |-> <<>>]
    ELSE LET parts == split(q.header)
         IN  [falsy |-> parts[Len(parts)] = <<>>, text |-> parts[Len(parts)]]

\* const token = authHeader && authHeader.split(' ')[1]
\* (undefined and the empty string are the falsy outcomes)
ExtractToken(q) ==
    IF ~q.hasAuth THEN [falsy |-> TRUE, text |-> <<>>]
    ELSE IF q.header = <<>> THEN [falsy |-> TRUE, text |-> <<>>]
    ELSE LET parts == split(q.header)
         IN  IF Len(parts) < 2 THEN [falsy |-> TRUE, text |-> <<>>]
             ELSE [falsy |-> parts[2] = <<>>, text |-> parts[2]]

\* a callback that answers 403 on err and goes on to next() all the same
authenticateVerifyNoReturn(q, token) ==
    IF ~jwtVerifies(token, JWT_SECRET)
    THEN [Respond([q EXCEPT !.verified = @ + 1], 403, "Invalid or expired token")
             EXCEPT !.nexts = @ + 1]
    ELSE [q EXCEPT !.verified = @ + 1, !.user = jwtPayload(token), !.nexts = @ + 1]

\* a callback that looks the account up and answers 403 when it is not active
authenticateVerifyActive(q, token) ==
    IF \/ ~jwtVerifies(token, JWT_SECRET)
       \/ ~\E u \in users : u.id = jwtPayload(token).id /\ u.is_active
    THEN Respond([q EXCEPT !.verified = @ + 1], 403, "Invalid or expired token")
    ELSE [q EXCEPT !.verified = @ + 1, !.user = jwtPayload(token), !.nexts = @ + 1]

\* jwt.verify(token, JWT_SECRET, (err, user) => { ... })
authenticateVerify(q, token) ==
    IF ~jwtVerifies(token, JWT_SECRET)
    THEN Respond([q EXCEPT !.verified = @ + 1], 403, "Invalid or expired token")
    ELSE [q EXCEPT !.verified = @ + 1, !.user = jwtPayload(token), !.nexts = @ + 1]

\* authenticateToken(req, res, next)
authenticateToken(q) ==
    LET token == ExtractToken(q)
    IN  IF token.falsy
        THEN Respond(q, 401, "Access token required")
        ELSE authenticateVerify(q, token.text)

\* a data route that does not test the flag before it queries
GuardAbsent == FALSE

\* the 503 of a data route of part_004 while the store is marked down
GuardDown == FullApp /\ ~dbConnected

\* GET /api/users, the handler behind the middleware
usersHandler(q) ==
    IF GuardDown
    THEN Respond(q, 503, "Database not connected")
    ELSE safeQuery(q, "users.list",
                   [op |-> "select_users", all |-> ~FullApp, cols |-> {"id", "name", "email"}])

\* GET /api/users, after its await
usersResume(q) ==
    IF q.ret.success
    THEN RespondWith(q, 200, "", q.ret.data, <<>>)
    ELSE Respond(q, 500, "Failed to fetch users")

\* the Authorization headers a request may carry
Bearer(t) == <<"B", " ">> \o t

\* GET /api/users arrives
Users(limit, headers) ==
    /\ ~Part002 /\ ~Part001
    /\ Accepting
    /\ BagCardinality(reqs) < limit
    /\ \E h \in headers :
           LET q0 == [NewRequest EXCEPT !.route = "users", !.arrived = now,
                                        !.hasAuth = h.present, !.header = h.value]
               q1 == authenticateToken(q0)
           IN  Accept(IF q1.nexts > q0.nexts THEN usersHandler(q1) ELSE q1)
    /\ UNCHANGED <<build, dbConnected, pool, users, now, proc>>

\* GET /api/auth/profile (part_004), GET /api/profile (part_002): the handler
profileHandler(q) ==
    IF GuardDown
    THEN Respond(q, 503, "Database not connected")
    ELSE safeQuery(q, "profile.get",
                   [op |-> "select_by_id", id |-> q.user.id,
                    cols |-> IF FullApp THEN {"id", "name", "email", "last_login"}
                                        ELSE {"id", "name", "email"}])

\* the profile route, after its await
profileResume(q) ==
    IF q.ret.success /\ q.ret.data # {}
    THEN RespondWith(q, 200, "", CHOOSE u \in q.ret.data : TRUE, <<>>)
    ELSE Respond(q, 404, "User not found")

\* a request for the profile route arrives
Profile(limit, headers) ==
    /\ FullApp \/ Part002
    /\ Accepting
    /\ BagCardinality(reqs) < limit
    /\ \E h \in headers :
           LET q0 == [NewRequest EXCEPT !.route = "profile", !.arrived = now,
                                        !.hasAuth = h.present, !.header = h.value]
               q1 == authenticateToken(q0)
           IN  Accept(IF q1.nexts > q0.nexts THEN profileHandler(q1) ELSE q1)
    /\ UNCHANGED <<build, dbConnected, pool, users, now, proc>>

\* POST /api/auth/logout: the handler answers and touches nothing
logoutHandler(q) ==
    Respond(q, 200, "Logout successful. Please remove the token from client.")

\* POST /api/auth/logout arrives (a route of part_004)
Logout(limit, headers) ==
    /\ FullApp
    /\ Accepting
    /\ BagCardinality(reqs) < limit
    /\ \E h \in headers :
           LET q0 == [NewRequest EXCEPT !.route = "logout", !.arrived = now,
                                        !.hasAuth = h.present, !.header = h.value]
               q1 == authenticateToken(q0)
           IN  Accept(IF q1.nexts > q0.nexts THEN logoutHandler(q1) ELSE q1)
    /\ UNCHANGED <<build, dbConnected, pool, users, now, proc>>

----------------------------------------------------------------------------
(* The user routes of part_001: pool.query, no gateway *)

\* the columns of the users table (part_004:146-155): what * names
UsersColumns == {"id", "name", "email", "password_hash", "is_active", "last_login"}

\* await pool.query(text, params): the pool takes a client, runs the statement and
\* releases the client itself
poolQuery(q, at, stmt) ==
    [q EXCEPT !.at = at, !.fn = "pool.query", !.sq = "pool.query", !.stmt = stmt]

\* GET /api/users of part_001: SELECT * FROM users ORDER BY id DESC LIMIT 10
listHandler(q) ==
    poolQuery(q, "list", [op |-> "select_users", all |-> TRUE, cols |-> UsersColumns])

\* GET /api/users of part_001, after its await: data: result.rows
listResume(q) == RespondWith(q, 200, "", q.ret.data, <<>>)

\* POST /api/users of part_001:
\* INSERT INTO users (name, email, created_at) VALUES ($1, $2, NOW()) RETURNING *
createHandler(q) ==
    IF q.body.name = <<>> \/ q.body.email = <<>>
    THEN Respond(q, 400, "Name and email are required")
    ELSE poolQuery(q, "create", [op |-> "insert_name_email", name |-> q.body.name,
                                 email |-> q.body.email, cols |-> UsersColumns])

\* POST /api/users of part_001, after its await: data: result.rows[0]
createResume(q) ==
    RespondWith(q, 201, "User created successfully", CHOOSE u \in q.ret.data : TRUE, <<>>)

\* GET /api/users arrives at part_001
ListUsers(limit) ==
    /\ Part001
    /\ Accepting
    /\ BagCardinality(reqs) < limit
    /\ Accept(listHandler([NewRequest EXCEPT !.route = "list", !.arrived = now]))
    /\ UNCHANGED <<build, dbConnected, pool, users, now, proc>>

\* POST /api/users arrives at part_001
CreateUser(limit, bodies) ==
    /\ Part001
    /\ Accepting
    /\ BagCardinality(reqs) < limit
    /\ \E b \in bodies :
           Accept(createHandler([NewRequest EXCEPT !.route = "create", !.arrived = now,
                                                   !.body = b]))
    /\ UNCHANGED <<build, dbConnected, pool, users, now, proc>>

----------------------------------------------------------------------------
(* Signup *)

\* the email the statements are given: part_004 trims and lower-cases it
emailParam(q) == IF FullApp THEN toLowerCase(trim(q.body.email)) ELSE q.body.email

\* the name the insert is given
nameParam(q) == IF FullApp THEN trim(q.body.name) ELSE q.body.name

\* JWT_EXPIRES_IN, in clock units
TokenTtl == 2

\* POST /api/auth/signup up to its first await
signupHandler(q) ==
    LET b == q.body
    IN  IF GuardDown THEN Respond(q, 503, "Database not connected")
        ELSE IF b.name = <<>> \/ b.email = <<>> \/ b.password = ""
             THEN Respond(q, 400, IF FullApp THEN "Name, email, and password are required"
                                             ELSE "All fields are required")
        ELSE IF FullApp /\ ~emailRegexTest(b.email)
             THEN Respond(q, 400, "Invalid email format")
        ELSE IF FullApp /\ Len(b.password) < 6
             THEN Respond(q, 400, "Password must be at least 6 characters long")
        ELSE safeQuery(q, "signup.exists",
                       [op |-> "select_by_email", email |-> emailParam(q), cols |-> {"id"}])

\* an existence check that goes on to the insert whatever it found
signupAfterExistsIgnored(q) ==
    [q EXCEPT !.existingUser = q.ret, !.at = "signup.hash"]

\* signup, after the existence check
signupAfterExists(q) ==
    IF q.ret.success /\ q.ret.data # {}
    THEN Respond([q EXCEPT !.existingUser = q.ret], 409, "Email already registered")
    ELSE [q EXCEPT !.existingUser = q.ret, !.at = "signup.hash"]

\* signup, after bcrypt.hash: the insert
signupInsert(q) ==
    safeQuery(q, "signup.insert",
              [op |-> "insert_user", name |-> nameParam(q), email |-> emailParam(q),
               password_hash |-> bcryptHash(q.body.password, IF FullApp THEN 12 ELSE 10),
               cols |-> {"id", "name", "email"}])

\* a signup that signs req.user's id, which no gateway has set, not the returned row's
signupAfterInsertReqUser(q) ==
    IF q.ret.success
    THEN LET user == CHOOSE u \in q.ret.data : TRUE
         IN  RespondWith([q EXCEPT !.row = user], 201,
                         IF Part002 THEN "" ELSE "User registered successfully", user,
                         jwtSign([id |-> q.user.id, email |-> user.email], JWT_SECRET, TokenTtl))
    ELSE Respond(q, 500, "Failed to create user")

\* a signup whose failed insert ends the handler with no response
signupAfterInsertSilent(q) ==
    IF q.ret.success
    THEN LET user == CHOOSE u \in q.ret.data : TRUE
         IN  RespondWith([q EXCEPT !.row = user], 201,
                         IF Part002 THEN "" ELSE "User registered successfully", user,
                         jwtSign([id |-> user.id, email |-> user.email], JWT_SECRET, TokenTtl))
    ELSE [q EXCEPT !.at = "returned"]

\* signup, after the insert
signupAfterInsert(q) ==
    IF q.ret.success
    THEN LET user == CHOOSE u \in q.ret.data : TRUE
         IN  RespondWith([q EXCEPT !.row = user], 201,
                         IF Part002 THEN "" ELSE "User registered successfully", user,
                         jwtSign([id |-> user.id, email |-> user.email], JWT_SECRET, TokenTtl))
    ELSE Respond(q, 500, "Failed to create user")

\* POST /api/auth/signup arrives
Signup(limit, bodies) ==
    /\ ~Part001
    /\ Accepting
    /\ BagCardinality(reqs) < limit
    /\ \E b \in bodies :
           LET q == [NewRequest EXCEPT !.route = "signup", !.arrived = now, !.body = b]
           IN  Accept(signupHandler(
                   [q EXCEPT !.seen = {u \in users : u.email = emailParam(q)}]))
    /\ UNCHANGED <<build, dbConnected, pool, users, now, proc>>

\* bcrypt.hash resolves
BcryptHash ==
    \E q \in InFlight :
        /\ q.at = "signup.hash"
        /\ Swap(q, signupInsert(q))
        /\ UNCHANGED <<build, dbConnected, pool, users, now, proc>>

----------------------------------------------------------------------------
(* Login *)

\* POST /api/auth/login up to its first await
loginHandler(q) ==
    LET b == q.body
    IN  IF GuardDown THEN Respond(q, 503, "Database not connected")
        ELSE IF b.email = <<>> \/ b.password = ""
             THEN Respond(q, 400, "Email and password are required")
        ELSE safeQuery(q, "login.lookup",
                       [op |-> "select_by_email", email |-> emailParam(q),
                        cols |-> CASE FullApp ->
                                        {"id", "name", "email", "password_hash", "is_active"}
                                   [] Part002 -> {"id", "email", "password_hash"}
                                   [] OTHER -> {"id", "name", "email", "password_hash"}])

\* login, after the lookup
loginAfterLookup(q) ==
    IF ~q.ret.success \/ q.ret.data = {}
    THEN Respond(q, 401, IF FullApp THEN "Invalid email or password" ELSE "Invalid credentials")
    ELSE LET user == CHOOSE u \in q.ret.data : TRUE
         IN  IF FullApp /\ ~user.is_active
             THEN Respond([q EXCEPT !.row = user], 401, "Account is deactivated")
             ELSE [q EXCEPT !.row = user, !.at = "login.compare"]

\* login, the token and the 200
loginSuccess(q) ==
    RespondWith(q, 200, IF Part002 THEN "" ELSE "Login successful",
                IF Part002 THEN NoUser ELSE Columns(q.row, {"id", "name", "email"}),
                jwtSign([id |-> q.row.id, email |-> q.row.email], JWT_SECRET, TokenTtl))

\* a login that answers 500 when the update of last_login failed
loginAfterUpdateChecked(q) ==
    IF q.ret.success THEN loginSuccess(q) ELSE Respond(q, 500, "Error during login")

\* login, after await safeQuery('UPDATE users SET last_login ...'): the result is dropped
loginAfterUpdate(q) == loginSuccess(q)

\* a compare branch without its return: the 401 is sent and the handler goes on
loginAfterCompareNoReturn(q) ==
    LET r == IF ~bcryptCompare(q.body.password, q.row.password_hash)
             THEN [q EXCEPT !.status = 401, !.msg = "Invalid email or password",
                            !.sent = @ + 1]
             ELSE q
    IN  IF FullApp
        THEN safeQuery(r, "login.update", [op |-> "update_last_login", id |-> q.row.id])
        ELSE loginSuccess(r)

\* login, after bcrypt.compare
loginAfterCompare(q) ==
    IF ~bcryptCompare(q.body.password, q.row.password_hash)
    THEN Respond(q, 401, IF FullApp THEN "Invalid email or password" ELSE "Invalid credentials")
    ELSE IF FullApp
         THEN safeQuery(q, "login.update", [op |-> "update_last_login", id |-> q.row.id])
         ELSE loginSuccess(q)

\* POST /api/auth/login arrives
Login(limit, bodies) ==
    /\ ~Part001
    /\ Accepting
    /\ BagCardinality(reqs) < limit
    /\ \E b \in bodies :
           LET q == [NewRequest EXCEPT !.route = "login", !.arrived = now, !.body = b]
           IN  Accept(loginHandler(
                   [q EXCEPT !.seen = {u \in users : u.email = emailParam(q)}]))
    /\ UNCHANGED <<build, dbConnected, pool, users, now, proc>>

\* bcrypt.compare resolves
BcryptCompare ==
    \E q \in InFlight :
        /\ q.at = "login.compare"
        /\ Swap(q, loginAfterCompare(q))
        /\ UNCHANGED <<build, dbConnected, pool, users, now, proc>>

----------------------------------------------------------------------------
(* Routes that probe the store *)

\* GET /health, after its await
healthResume(q) ==
    IF HealthByQuery
    THEN \* part_004:98  healthData.database = dbTest.success ? 'Connected' : 'Error'
         Respond(q, 200, IF q.ret.success THEN "Connected" ELSE "Error")
    ELSE \* server.js:41
         Respond(q, 200, IF q.probe = "true" THEN "Connected" ELSE "Disconnected")

\* GET /api/test-db, after its await (part_004:120)
testDbResume(q) ==
    Respond(q, 200, IF q.probe = "true" THEN "Database connection successful"
                                        ELSE "Database connection failed")

\* } catch (error) { res.status(500).json(...) } of the route's handler
handlerCatch(q) == Respond(q, 500, "Internal server error")

\* startServer's await testConnection() has its value
startServerProbed(q) == [q EXCEPT !.at = "startup.returned"]

\* the handler continues after the db function returned
Resume(q) ==
    CASE q.threw          -> handlerCatch(q)
      [] q.at = "startup" -> startServerProbed(q)
      [] q.at = "health"  -> healthResume(q)
      [] q.at = "test-db" -> testDbResume(q)
      [] q.at = "users.list" -> usersResume(q)
      [] q.at = "list" -> listResume(q)
      [] q.at = "create" -> createResume(q)
      [] q.at = "profile.get" -> profileResume(q)
      [] q.at = "signup.exists" -> signupAfterExists(q)
      [] q.at = "signup.insert" -> signupAfterInsert(q)
      [] q.at = "login.lookup" -> loginAfterLookup(q)
      [] q.at = "login.update" -> loginAfterUpdate(q)
      [] OTHER -> q

\* GET /health arrives
Health(limit) ==
    /\ Accepting
    /\ BagCardinality(reqs) < limit
    /\ LET q == [NewRequest EXCEPT !.route = "health", !.arrived = now]
       IN  Accept(IF HealthByQuery
                  THEN IF dbConnected
                       THEN safeQuery(q, "health", [op |-> "now"])
                       ELSE Respond(q, 200, "Disconnected")
                  ELSE testConnection(q, "health"))
    /\ UNCHANGED <<build, dbConnected, pool, users, now, proc>>

\* GET /api/test-db arrives (a route of part_004)
TestDb(limit) ==
    /\ FullApp
    /\ Accepting
    /\ BagCardinality(reqs) < limit
    /\ Accept(testConnection([NewRequest EXCEPT !.route = "test-db", !.arrived = now],
                              "test-db"))
    /\ UNCHANGED <<build, dbConnected, pool, users, now, proc>>

----------------------------------------------------------------------------
(* The awaits of the db module *)

\* pool.connect() resolves with a client
PoolConnectResolves ==
    \E q \in InFlight :
        /\ q.sq = "connecting"
        /\ ~pool.ending
        /\ PoolHasRoom
        /\ Swap(q, ClientAssigned(q))
        /\ pool' = [pool EXCEPT !.checkedOut = @ + 1]
        /\ UNCHANGED <<build, dbConnected, users, now, proc>>

\* the db function of q left through q1: the pool gets back what q1 released
Settle(q, q1) ==
    /\ Swap(q, IF q1.sq = "none" THEN Resume(q1) ELSE q1)
    /\ pool' = [pool EXCEPT !.checkedOut = @ - (q1.released - q.released)]

\* pool.connect() rejects: no client in time, or the store refuses the connection
PoolConnectRejects ==
    \E q \in InFlight :
        /\ q.sq = "connecting"
        /\ Settle(q, IF q.fn = "safeQuery" THEN safeQueryCatch(q, ConnectError)
                                           ELSE testConnectionCatch(q))
        /\ UNCHANGED <<build, dbConnected, users, now, proc>>

\* client.query() resolves
ClientQueryResolves ==
    \E q \in InFlight :
        /\ q.sq = "querying"
        /\ ~Violates(q.stmt)
        /\ Settle(q, IF q.fn = "safeQuery" THEN safeQueryTry(q, Rows(q.stmt))
                                           ELSE testConnectionTry(q))
        /\ users' = Effect(q.stmt)
        /\ UNCHANGED <<build, dbConnected, now, proc>>

\* client.query() rejects: the store rejects the statement, or fails
ClientQueryRejects ==
    \E q \in InFlight :
        /\ q.sq = "querying"
        /\ LET err == IF Violates(q.stmt) THEN UniqueError ELSE QueryError
           IN  Settle(q, IF q.fn = "safeQuery" THEN safeQueryCatch(q, err)
                                               ELSE testConnectionCatch(q))
        /\ UNCHANGED <<build, dbConnected, users, now, proc>>

\* pool.query() resolves: the pool had a client for it and the store ran the statement
PoolQueryResolves ==
    \E q \in InFlight :
        /\ q.sq = "pool.query"
        /\ ~pool.ending
        /\ PoolHasRoom
        /\ ~Violates(q.stmt)
        /\ Swap(q, Resume(Returned([q EXCEPT !.ret = [success |-> TRUE,
                                                      data |-> Rows(q.stmt)]])))
        /\ users' = Effect(q.stmt)
        /\ UNCHANGED <<build, dbConnected, pool, now, proc>>

\* pool.query() rejects: no client, or the store failed or rejected the statement;
\* the handler's catch answers
PoolQueryRejects ==
    \E q \in InFlight :
        /\ q.sq = "pool.query"
        /\ Swap(q, Resume(Returned([q EXCEPT !.threw = TRUE])))
        /\ UNCHANGED <<build, dbConnected, pool, users, now, proc>>

\* testDirectConnection's client connects and answers, or fails
DirectConnection ==
    \E q \in InFlight, ok \in BOOLEAN :
        /\ q.sq = "direct"
        /\ Swap(q, Resume(testDirectConnection(q, ok)))
        /\ UNCHANGED <<build, dbConnected, pool, users, now, proc>>

----------------------------------------------------------------------------
(* Startup *)

\* const maxRetries = 3
maxRetries == 3

\* startServer calls testConnection()
startupProbe == testConnection([NewRequest EXCEPT !.route = "startup"], "startup")

\* a loop that tests retryCount <= maxRetries after a failed attempt
startServerOneMore(p, ok) ==
    IF ok THEN Serving([p EXCEPT !.succeeded = TRUE])
    ELSE LET r == [p EXCEPT !.retryCount = @ + 1]
         IN  IF r.retryCount <= maxRetries
             THEN [r EXCEPT !.phase = "waiting", !.waits = @ + 1]
             ELSE Serving(r)

\* startServer after a probe that returned ok
startServer(p, ok) ==
    CASE FullApp ->
           \* index.js:357-383, part_004:581-607: retry up to maxRetries, then listen
           IF ok THEN Serving([p EXCEPT !.succeeded = TRUE])
           ELSE LET r == [p EXCEPT !.retryCount = @ + 1]
                IN  IF r.retryCount < maxRetries
                    THEN [r EXCEPT !.phase = "waiting", !.waits = @ + 1]
                    ELSE Serving(r)
      [] Part002 ->
           \* part_002:181-189: one probe, listen whatever it said
           Serving([p EXCEPT !.succeeded = ok])
      [] OTHER ->
           \* server.js:162-170: one probe, exit when it failed
           IF ok THEN Serving([p EXCEPT !.succeeded = TRUE]) ELSE Exit(p, 1)

\* dbConnected = await testConnection(), and the rest of startServer's turn
StartServerResume ==
    \E q \in InFlight :
        /\ q.at = "startup.returned"
        /\ reqs' = reqs (-) SetToBag({q})
        /\ dbConnected' = (q.probe = "true")
        /\ proc' = startServer(proc, q.probe = "true")
        /\ UNCHANGED <<build, pool, users, now>>

\* the 5 seconds of setTimeout are over: the next attempt of the loop
RetryTimer ==
    /\ proc.phase = "waiting"
    /\ Accept(startupProbe)
    /\ proc' = [proc EXCEPT !.phase = "starting", !.probes = @ + 1]
    /\ UNCHANGED <<build, dbConnected, pool, users, now>>

\* the process after startServer() ran to its first await
Booting(builds, stores) ==
    /\ build \in builds
    /\ dbConnected = FALSE
    /\ pool = NewPool
    /\ users \in stores
    /\ reqs = SetToBag({startupProbe})
    /\ now = 1
    /\ proc = Starting

----------------------------------------------------------------------------
(* Shutdown *)

\* closePool: await pool.end(); a second pool.end() rejects and is caught, logged
closePool(p) == [p EXCEPT !.ending = TRUE]

\* const gracefulShutdown: server.close(callback)
gracefulShutdown(p) == [p EXCEPT !.phase = "closing"]

\* SIGINT or SIGTERM is delivered while the server listens.  The handlers run in the
\* order they were registered: the db module's (db.js:88-96, part_004:793-803), which
\* calls closePool() at once, then the application's gracefulShutdown where there is
\* one (index.js:418-419, part_004:649-650)
Signal ==
    /\ proc.phase = "listening"
    /\ ~proc.signal
    /\ build # "part_005"
    /\ pool' = closePool(pool)
    /\ proc' = [(IF FullApp THEN gracefulShutdown(proc) ELSE proc) EXCEPT !.signal = TRUE]
    /\ UNCHANGED <<build, dbConnected, users, reqs, now>>

\* pool.end() resolves once no client is checked out; the db module's handler goes on
\* to process.exit(0)
PoolEnds ==
    /\ pool.ending
    /\ pool.checkedOut = 0
    /\ proc' = Exit(proc, 0)
    /\ UNCHANGED <<build, dbConnected, pool, users, reqs, now>>

\* the callback of server.close: every connection of the http server has ended;
\* await closePool(), then process.exit(0)
ServerCloses ==
    /\ proc.phase = "closing"
    /\ \A q \in InFlight : q.at = "done"
    /\ pool' = closePool(pool)
    /\ LET p == [proc EXCEPT !.closed = TRUE]
       IN  proc' = IF pool.ending THEN Exit(p, 0) ELSE p
    /\ UNCHANGED <<build, dbConnected, users, reqs, now>>

----------------------------------------------------------------------------
(* The environment: time, and the store's administrator *)

\* the last instant of a behaviour
MaxNow == 4

\* a unit of time passes
Tick ==
    /\ now < MaxNow
    /\ now' = now + 1
    /\ UNCHANGED <<build, dbConnected, pool, users, reqs, proc>>

\* an account is deactivated in the store: its is_active becomes false
Deactivate ==
    \E u \in users :
        /\ u.is_active
        /\ users' = (users \ {u}) \cup {[u EXCEPT !.is_active = FALSE]}
        /\ UNCHANGED <<build, dbConnected, pool, reqs, now, proc>>

----------------------------------------------------------------------------
(* Initial states: the server is listening *)

\* part_004 and part_002 listen whatever the startup probes said (part_004:601-607,
\* part_002:183-189);
\* server.js listens only after a probe that succeeded (server.js:162-168)
Listening(builds, stores) ==
    /\ build \in builds
    /\ dbConnected \in (IF build \in {"part_004", "part_002"} THEN BOOLEAN ELSE {TRUE})
    /\ pool = NewPool
    /\ proc = Serving(IF dbConnected THEN [Starting EXCEPT !.succeeded = TRUE]
                       ELSE IF FullApp
                            THEN [Starting EXCEPT !.retryCount = maxRetries,
                                                  !.probes = maxRetries,
                                                  !.waits = maxRetries - 1]
                            ELSE Starting)
    /\ users \in stores
    /\ reqs = EmptyBag
    /\ now = 1

----------------------------------------------------------------------------
(* SpecPool: probes competing for the pool *)

InitPool == Listening(Builds, {{}})

NextPool ==
    \/ Health(NumCallers)
    \/ PoolConnectResolves
    \/ PoolConnectRejects
    \/ ClientQueryResolves
    \/ ClientQueryRejects

SpecPool == InitPool /\ [][NextPool]_vars

----------------------------------------------------------------------------
(* SpecQuery: the db module under every probe route *)

InitQuery == Listening(Builds, {{}})

NextQuery ==
    \/ Health(NumProbes)
    \/ TestDb(NumProbes)
    \/ PoolConnectResolves
    \/ PoolConnectRejects
    \/ ClientQueryResolves
    \/ ClientQueryRejects
    \/ DirectConnection

SpecQuery == InitQuery /\ [][NextQuery]_vars

----------------------------------------------------------------------------
(* Inputs *)

EmailA == <<"a", "@", "x", ".", "c">>
EmailUpperA == <<"A", "@", "x", ".", "c">>
EmailB == <<"b", "@", "x", ".", "c">>
Name == <<"N">>

\* an account created before the process started
Account(email, active) ==
    [id |-> 1, name |-> Name, email |-> email,
     password_hash |-> bcryptHash("secret1", 10), is_active |-> active, last_login |-> 0]

\* the application builds: server.js is the same application over db.js and part_005
AppBuilds == {"part_004", "server"}

SignupBodies ==
    {[name |-> Name, email |-> EmailA, password |-> "secret1"],
     [name |-> Name, email |-> EmailUpperA, password |-> "secret1"],
     [name |-> Name, email |-> EmailB, password |-> "secret1"],
     [name |-> <<>>, email |-> EmailA, password |-> "secret1"],
     [name |-> Name, email |-> <<" ">> \o EmailA, password |-> "secret1"],
     [name |-> Name, email |-> EmailA, password |-> "short"]}

LoginBodies ==
    {[name |-> <<>>, email |-> EmailA, password |-> "secret1"],
     [name |-> <<>>, email |-> EmailA, password |-> "wrong11"],
     [name |-> <<>>, email |-> EmailUpperA, password |-> "secret1"],
     [name |-> <<>>, email |-> EmailB, password |-> "secret1"],
     [name |-> <<>>, email |-> EmailA, password |-> ""]}

\* tokens a client may hold: one the server signed that is still valid, one that
\* has expired, one signed with another key
GoodToken == <<JWT_SECRET, "1", "0", "9">> \o EmailA
ExpiredToken == <<JWT_SECRET, "1", "0", "1">> \o EmailA
ForgedToken == <<OtherSecret, "1", "0", "9">> \o EmailA

Headers ==
    {[present |-> FALSE, value |-> <<>>],
     [present |-> TRUE, value |-> <<>>],
     [present |-> TRUE, value |-> Bearer(GoodToken)],
     [present |-> TRUE, value |-> Bearer(ExpiredToken)],
     [present |-> TRUE, value |-> Bearer(ForgedToken)],
     [present |-> TRUE, value |-> Bearer(<<"j", "w", "t">>)],
     [present |-> TRUE, value |-> GoodToken],
     [present |-> TRUE, value |-> <<"B">>],
     [present |-> TRUE, value |-> <<"B", " ">>],
     [present |-> TRUE, value |-> <<"B", " ", " ">> \o GoodToken]}

----------------------------------------------------------------------------
(* SpecSignup: concurrent signups *)

InitSignup == Listening(AppBuilds, {{}, {Account(EmailA, TRUE)}})

NextSignup ==
    \/ Signup(NumRequests, SignupBodies)
    \/ BcryptHash
    \/ PoolConnectResolves
    \/ PoolConnectRejects
    \/ ClientQueryResolves
    \/ ClientQueryRejects

SpecSignup == InitSignup /\ [][NextSignup]_vars

----------------------------------------------------------------------------
(* SpecLogin: concurrent logins *)

InitLogin ==
    Listening(AppBuilds, {{}, {Account(EmailA, TRUE)}, {Account(EmailA, FALSE)}})

NextLogin ==
    \/ Login(NumRequests, LoginBodies)
    \/ BcryptCompare
    \/ PoolConnectResolves
    \/ PoolConnectRejects
    \/ ClientQueryResolves
    \/ ClientQueryRejects

SpecLogin == InitLogin /\ [][NextLogin]_vars

----------------------------------------------------------------------------
(* SpecAuth: requests for a protected route *)

InitAuth == Listening(AppBuilds, {{Account(EmailA, TRUE)}})

NextAuth ==
    \/ Users(NumRequests, Headers)
    \/ PoolConnectResolves
    \/ PoolConnectRejects
    \/ ClientQueryResolves
    \/ ClientQueryRejects

SpecAuth == InitAuth /\ [][NextAuth]_vars

----------------------------------------------------------------------------
(* SpecSession: signups and logins against one store, on every application *)

\* the applications: part_004, server.js and part_002
ServiceBuilds == {"part_004", "server", "part_002"}

\* requests that arrive in one behaviour of SpecSession
NumSessions == 3

SessionSignupBodies ==
    {[name |-> Name, email |-> EmailB, password |-> "secret1"]}

SessionLoginBodies ==
    {[name |-> <<>>, email |-> EmailA, password |-> "secret1"],
     [name |-> <<>>, email |-> EmailA, password |-> "wrong11"],
     [name |-> <<>>, email |-> EmailB, password |-> "secret1"],
     [name |-> <<>>, email |-> EmailB, password |-> "wrong11"]}

InitSession ==
    Listening(ServiceBuilds, {{}, {Account(EmailA, TRUE)}, {Account(EmailA, FALSE)}})

NextSession ==
    \/ Signup(NumSessions, SessionSignupBodies)
    \/ Login(NumSessions, SessionLoginBodies)
    \/ BcryptHash
    \/ BcryptCompare
    \/ PoolConnectResolves
    \/ PoolConnectRejects
    \/ ClientQueryResolves
    \/ ClientQueryRejects

SpecSession == InitSession /\ [][NextSession]_vars

----------------------------------------------------------------------------
(* SpecRoundTrip: signups, then logins to the accounts they created *)

RoundTripLoginBodies ==
    {[name |-> <<>>, email |-> EmailB, password |-> "secret1"],
     [name |-> <<>>, email |-> EmailB, password |-> "wrong11"]}

InitRoundTrip == Listening(ServiceBuilds, {{}})

NextRoundTrip ==
    \/ Signup(NumSessions, SessionSignupBodies)
    \/ Login(NumSessions, RoundTripLoginBodies)
    \/ BcryptHash
    \/ BcryptCompare
    \/ PoolConnectResolves
    \/ PoolConnectRejects
    \/ ClientQueryResolves
    \/ ClientQueryRejects

SpecRoundTrip == InitRoundTrip /\ [][NextRoundTrip]_vars

----------------------------------------------------------------------------
(* SpecIssue: signups against a store that holds an account already *)

InitIssue == Listening(ServiceBuilds, {{Account(EmailA, TRUE)}})

NextIssue ==
    \/ Signup(NumRequests, SessionSignupBodies)
    \/ BcryptHash
    \/ PoolConnectResolves
    \/ PoolConnectRejects
    \/ ClientQueryResolves
    \/ ClientQueryRejects

SpecIssue == InitIssue /\ [][NextIssue]_vars

----------------------------------------------------------------------------
(* SpecToken: tokens issued by signup, presented to the gateway as time passes.
   The gateway is in front of the logout route, whose handler gives the store no
   query, so that a presented token is settled in the step it arrives in. *)

\* signups that issue a token in one behaviour of SpecToken
NumIssuers == 1

\* requests in one behaviour of SpecToken: the signup and the requests presenting tokens
NumPresented == 4

TokenSignupBodies ==
    {[name |-> Name, email |-> EmailB, password |-> "secret1"]}

\* a token whose signature segment is not the one that was issued
Tamper(t) == [t EXCEPT ![1] = OtherSecret]

\* the tokens the responses of the service have handed out
Issued == {q.token : q \in {x \in InFlight : x.token # <<>>}}

\* the headers a client can build from them: the token as issued, or tampered with
IssuedHeaders ==
    {[present |-> TRUE, value |-> Bearer(t)] : t \in Issued}
        \cup {[present |-> TRUE, value |-> Bearer(Tamper(t))] : t \in Issued}

InitToken == Listening({"part_004"}, {{}})

NextToken ==
    \/ Signup(NumIssuers, TokenSignupBodies)
    \/ BcryptHash
    \/ Logout(NumPresented, IssuedHeaders)
    \/ Tick
    \/ PoolConnectResolves
    \/ PoolConnectRejects
    \/ ClientQueryResolves
    \/ ClientQueryRejects

SpecToken == InitToken /\ [][NextToken]_vars

----------------------------------------------------------------------------
(* SpecRevoke: a token in a client's hands, logouts and a deactivation *)

\* a token the service issued at time 0 to the account of id 1
HeldToken == <<JWT_SECRET, "1", "0", ToDigit(TokenTtl + 1)>> \o EmailA

HeldHeaders == {[present |-> TRUE, value |-> Bearer(HeldToken)]}

InitRevoke == Listening({"part_004"}, {{Account(EmailA, TRUE)}})

NextRevoke ==
    \/ Logout(NumRequests, HeldHeaders)
    \/ Users(NumRequests, HeldHeaders)
    \/ Profile(NumRequests, HeldHeaders)
    \/ Deactivate
    \/ Tick
    \/ PoolConnectResolves
    \/ PoolConnectRejects
    \/ ClientQueryResolves
    \/ ClientQueryRejects

SpecRevoke == InitRevoke /\ [][NextRevoke]_vars

----------------------------------------------------------------------------
(* SpecShutdown: a termination signal while signups are in flight *)

InitShutdown == Listening({"part_004", "server"}, {{}})

NextShutdown ==
    \/ Running /\ Signup(NumRequests, SessionSignupBodies)
    \/ Running /\ BcryptHash
    \/ Running /\ PoolConnectResolves
    \/ Running /\ PoolConnectRejects
    \/ Running /\ ClientQueryResolves
    \/ Running /\ ClientQueryRejects
    \/ Running /\ Signal
    \/ Running /\ PoolEnds
    \/ Running /\ ServerCloses

SpecShutdown == InitShutdown /\ [][NextShutdown]_vars

----------------------------------------------------------------------------
(* SpecStartup: startServer's probes, then the data routes *)

StartupLoginBodies == {[name |-> <<>>, email |-> EmailA, password |-> "secret1"]}

StartupHeaders == {[present |-> TRUE, value |-> Bearer(GoodToken)]}

InitStartup == Booting(ServiceBuilds, {{Account(EmailA, TRUE)}})

NextStartup ==
    \/ StartServerResume
    \/ RetryTimer
    \/ Signup(NumRequests, SessionSignupBodies)
    \/ Login(NumRequests, StartupLoginBodies)
    \/ Users(NumRequests, StartupHeaders)
    \/ Profile(NumRequests, StartupHeaders)
    \/ BcryptHash
    \/ BcryptCompare
    \/ PoolConnectResolves
    \/ PoolConnectRejects
    \/ ClientQueryResolves
    \/ ClientQueryRejects
    \/ DirectConnection

SpecStartup == InitStartup /\ [][NextStartup]_vars

----------------------------------------------------------------------------
(* SpecRetry: startServer's retry loop on part_004, then the routes that probe the
   store and a guarded route *)

InitRetry == Booting({"part_004"}, {{Account(EmailA, TRUE)}})

NextRetry ==
    \/ StartServerResume
    \/ RetryTimer
    \/ Health(NumRequests)
    \/ TestDb(NumRequests)
    \/ Users(NumRequests, StartupHeaders)
    \/ PoolConnectResolves
    \/ PoolConnectRejects
    \/ ClientQueryResolves
    \/ ClientQueryRejects
    \/ DirectConnection

SpecRetry == InitRetry /\ [][NextRetry]_vars

\* an await of the db module settles: pool.connect() within connectionTimeoutMillis,
\* client.query() within query_timeout (part_004:679-682), the direct client likewise
DbSettles ==
    \/ PoolConnectResolves
    \/ PoolConnectRejects
    \/ ClientQueryResolves
    \/ ClientQueryRejects
    \/ DirectConnection

\* the event loop runs startServer's continuation and its timer, and the awaits settle
FairSpecRetry ==
    /\ SpecRetry
    /\ WF_vars(StartServerResume)
    /\ WF_vars(RetryTimer)
    /\ WF_vars(DbSettles)

----------------------------------------------------------------------------
(* SpecReject: signups and logins, valid and invalid, against one account *)

RejectSignupBodies ==
    {[name |-> Name, email |-> EmailA, password |-> "secret1"],
     [name |-> Name, email |-> EmailB, password |-> "secret1"],
     [name |-> <<>>, email |-> EmailB, password |-> "secret1"],
     [name |-> Name, email |-> EmailB, password |-> "short"]}

RejectLoginBodies ==
    {[name |-> <<>>, email |-> EmailA, password |-> "secret1"],
     [name |-> <<>>, email |-> EmailA, password |-> "wrong11"],
     [name |-> <<>>, email |-> EmailB, password |-> "secret1"],
     [name |-> <<>>, email |-> EmailA, password |-> ""]}

InitReject == Listening(AppBuilds, {{Account(EmailA, TRUE)}, {Account(EmailA, FALSE)}})

NextReject ==
    \/ Signup(NumRequests, RejectSignupBodies)
    \/ Login(NumRequests, RejectLoginBodies)
    \/ BcryptHash
    \/ BcryptCompare
    \/ PoolConnectResolves
    \/ PoolConnectRejects
    \/ ClientQueryResolves
    \/ ClientQueryRejects

SpecReject == InitReject /\ [][NextReject]_vars

----------------------------------------------------------------------------
(* SpecAnswer: signups, logins and requests for a protected route on the running
   service, every await settling either way; FairSpecAnswer adds that they settle *)

AnswerHeaders ==
    {[present |-> FALSE, value |-> <<>>],
     [present |-> TRUE, value |-> Bearer(GoodToken)],
     [present |-> TRUE, value |-> Bearer(ForgedToken)]}

AnswerSignupBodies ==
    {[name |-> Name, email |-> EmailA, password |-> "secret1"],
     [name |-> Name, email |-> EmailB, password |-> "secret1"],
     [name |-> <<>>, email |-> EmailB, password |-> "secret1"]}

AnswerLoginBodies ==
    {[name |-> <<>>, email |-> EmailA, password |-> "secret1"],
     [name |-> <<>>, email |-> EmailA, password |-> "wrong11"],
     [name |-> <<>>, email |-> EmailA, password |-> ""]}

InitAnswer == Listening(AppBuilds, {{Account(EmailA, TRUE)}})

NextAnswer ==
    \/ Signup(NumRequests, AnswerSignupBodies)
    \/ Login(NumRequests, AnswerLoginBodies)
    \/ Users(NumRequests, AnswerHeaders)
    \/ BcryptHash
    \/ BcryptCompare
    \/ PoolConnectResolves
    \/ PoolConnectRejects
    \/ ClientQueryResolves
    \/ ClientQueryRejects

SpecAnswer == InitAnswer /\ [][NextAnswer]_vars

\* an await of a handler settles: bcrypt's promises resolve, pool.connect() settles
\* within connectionTimeoutMillis and client.query() within query_timeout
\* (part_004:679-682)
AwaitSettles ==
    \/ BcryptHash
    \/ BcryptCompare
    \/ PoolConnectResolves
    \/ PoolConnectRejects
    \/ ClientQueryResolves
    \/ ClientQueryRejects

FairSpecAnswer == SpecAnswer /\ WF_vars(AwaitSettles)

----------------------------------------------------------------------------
(* SpecPayload: every route that answers with account data, on every application *)

CreateBodies ==
    {[name |-> Name, email |-> EmailB, password |-> ""],
     [name |-> <<>>, email |-> EmailB, password |-> ""]}

InitPayload == Listening(ServiceBuilds \cup {"part_001"}, {{Account(EmailA, TRUE)}})

NextPayload ==
    \/ Signup(NumRequests, SessionSignupBodies)
    \/ Login(NumRequests, StartupLoginBodies)
    \/ Users(NumRequests, StartupHeaders)
    \/ Profile(NumRequests, StartupHeaders)
    \/ ListUsers(NumRequests)
    \/ CreateUser(NumRequests, CreateBodies)
    \/ BcryptHash
    \/ BcryptCompare
    \/ PoolConnectResolves
    \/ PoolConnectRejects
    \/ ClientQueryResolves
    \/ ClientQueryRejects
    \/ PoolQueryResolves
    \/ PoolQueryRejects

SpecPayload == InitPayload /\ [][NextPayload]_vars

----------------------------------------------------------------------------
(* Spec: the whole service *)

Init ==
    Listening(Builds, {{}, {Account(EmailA, TRUE)}, {Account(EmailA, FALSE)}})

Next ==
    \/ Health(NumRequests)
    \/ TestDb(NumRequests)
    \/ Users(NumRequests, Headers)
    \/ Signup(NumRequests, SignupBodies)
    \/ Login(NumRequests, LoginBodies)
    \/ BcryptHash
    \/ BcryptCompare
    \/ PoolConnectResolves
    \/ PoolConnectRejects
    \/ ClientQueryResolves
    \/ ClientQueryRejects
    \/ DirectConnection

Spec == Init /\ [][Next]_vars

----------------------------------------------------------------------------
(* Claims *)

\* q's safeQuery call has returned
SafeQueryReturned(q) == q.fn = "safeQuery" /\ q.sq = "none"

\* the clients in the hands of the requests
RECURSIVE HeldBy(_)
HeldBy(S) ==
    IF S = {} THEN 0
    ELSE LET q == CHOOSE x \in S : TRUE
         IN  Held(q) * CopiesIn(q, reqs) + HeldBy(S \ {q})

TotalHeld == HeldBy(InFlight)

AllDone == reqs # EmptyBag /\ \A q \in InFlight : q.at = "done"

\* C1: a request that runs safeQuery owns a pooled connection only while its query
\* is in flight; when the call has returned (query succeeded, query failed or
\* pool.connect failed) every connection the call acquired is back in the pool.
C1_NoLeak ==
    \A q \in InFlight :
        q.fn = "safeQuery" =>
            /\ Held(q) = (IF q.sq = "querying" THEN 1 ELSE 0)
            /\ SafeQueryReturned(q) => Held(q) = 0

\* C1 witness: a safeQuery call that acquired a client and whose query failed has returned
C1_Witness ==
    \E q \in InFlight :
        /\ SafeQueryReturned(q)
        /\ q.acquired = 1
        /\ q.ret = [success |-> FALSE, error |-> QueryError]

\* the result is tagged: success with data, or failure with an error, never both or neither
Tagged(r) ==
    \/ DOMAIN r = {"success", "data"} /\ r.success = TRUE
    \/ DOMAIN r = {"success", "error"} /\ r.success = FALSE

\* C2: safeQuery never throws to its caller; whatever the store did (acquisition
\* failure, query failure, success) the call returns a result tagged either
\* success with data or failure with an error.
C2_TaggedResult ==
    \A q \in InFlight :
        /\ ~q.threw
        /\ SafeQueryReturned(q) => Tagged(q.ret)

\* C2 witness: one call returned success and another returned an acquisition failure
C2_Witness ==
    \E q1, q2 \in InFlight :
        /\ SafeQueryReturned(q1) /\ q1.ret = [success |-> TRUE, data |-> Rows([op |-> "now"])]
        /\ SafeQueryReturned(q2) /\ q2.ret = [success |-> FALSE, error |-> ConnectError]

\* C3: under every interleaving of the callers, the connections checked out of the
\* pool at the same time, by the pool's count and by the count of the clients in the
\* callers' hands, never exceed the configured maximum of 10.
C3_PoolBounded ==
    /\ pool.checkedOut <= 10
    /\ TotalHeld <= 10

\* C3 witness: ten clients are out and an eleventh caller waits in pool.connect()
C3_Witness ==
    /\ TotalHeld = 10
    /\ \E q \in InFlight : q.sq = "connecting"

\* C4: when every request has completed, the pool has no checked-out connection.
C4_AllReleased == AllDone => pool.checkedOut = 0

\* the normalized form of an email: trimmed and lower-cased
Normalized(e) == toLowerCase(trim(e))

\* C5: the store never holds two Accounts with the same normalized email.
C5_OneAccountPerEmail ==
    \A u, v \in users : Normalized(u.email) = Normalized(v.email) => u = v

Signups == {q \in InFlight : q.route = "signup"}

\* q passed the existence check (it found no row) and its insert then failed on the
\* store's uniqueness constraint
LostRace(q) ==
    /\ q.route = "signup" /\ q.at = "done"
    /\ q.existingUser = [success |-> TRUE, data |-> {}]
    /\ q.stmt.op = "insert_user"
    /\ q.ret = [success |-> FALSE, error |-> UniqueError]

\* C6: a signup that passed the existence check and lost the race at the insert is
\* answered with the conflict outcome, 409, like a signup whose check found the account.
C6_RaceIsConflict ==
    \A q \in InFlight : LostRace(q) => q.status = 409 /\ q.msg = "Email already registered"

\* the Account rows with q's email
RowsOf(q) == {u \in users : u.email = q.stmt.email}

\* q is a signup that gave its existence check to the store while its email was present
PresentSignup(q) == q.route = "signup" /\ q.seen # {} /\ q.queries > 0

Protected == {q \in InFlight : q.route = "users"}

\* the headers by what they carry
CarriesNoToken(q) == ~q.hasAuth
CarriesBadToken(q) ==
    q.hasAuth /\ q.header \in {Bearer(ExpiredToken), Bearer(ForgedToken), Bearer(<<"j", "w", "t">>)}
CarriesGoodToken(q) == q.hasAuth /\ q.header = Bearer(GoodToken) /\ now < 9

\* C8: the gateway answers 401 without verifying when there is no token, 403 without
\* continuing when verification fails, and on success attaches the claims as req.user
\* and calls next() once without responding itself; the protected handler and its
\* query run only for verified requests.
C8_Gateway ==
    \A q \in Protected :
        /\ CarriesNoToken(q) =>
              q.status = 401 /\ q.verified = 0 /\ q.nexts = 0 /\ q.queries = 0
        /\ CarriesBadToken(q) =>
              q.status = 403 /\ q.verified = 1 /\ q.nexts = 0 /\ q.queries = 0
        /\ CarriesGoodToken(q) =>
              /\ q.verified = 1 /\ q.nexts = 1
              /\ q.user = [id |-> 1, email |-> EmailA, iat |-> 0, exp |-> 9]
              /\ q.status \notin {401, 403}
        /\ q.nexts <= 1 /\ q.sent <= 1
        /\ q.queries > 0 => q.nexts = 1 /\ q.user # NoUser
        /\ q.nexts = 0 => q.user = NoUser /\ q.status \in {401, 403}

\* C8 witness: a verified request ran its query and was answered 200 while a request
\* with a forged token was answered 403
C8_Witness ==
    \E q1, q2 \in Protected :
        /\ CarriesGoodToken(q1) /\ q1.status = 200 /\ q1.queries = 1
        /\ q2.header = Bearer(ForgedToken) /\ q2.status = 403

\* the header has no scheme prefix: nothing separates a scheme from the token
NoSchemePrefix(h) == h # <<>> /\ \A i \in 1..Len(h) : h[i] # " "

\* the header's scheme prefix is followed by an empty value
EmptyValue(h) ==
    \/ h = <<>>
    \/ \E i \in 1..Len(h) :
          /\ h[i] = " " /\ \A m \in 1..(i - 1) : h[m] # " "
          /\ i = Len(h) \/ h[i + 1] = " "

\* C9: a request whose Authorization header is malformed (no scheme prefix, or a scheme
\* prefix with an empty value) is answered like a request without the header: 401
\* 'Access token required', and jwt.verify is never called.
C9_MalformedIsNoToken ==
    \A q \in Protected :
        q.hasAuth /\ (NoSchemePrefix(q.header) \/ EmptyValue(q.header)) =>
            /\ q.status = 401 /\ q.msg = "Access token required"
            /\ q.verified = 0 /\ q.nexts = 0 /\ q.queries = 0

\* C9 witness: a valid token sent without a scheme prefix and a scheme without a value
\* were both answered 401
C9_Witness ==
    \E q1, q2 \in Protected :
        /\ q1.hasAuth /\ q1.header = GoodToken /\ q1.status = 401
        /\ q2.hasAuth /\ q2.header = <<"B", " ">> /\ q2.status = 401

\* q is a login whose lookup the store answered
LookedUp(q) ==
    /\ q.route = "login" /\ q.at = "done"
    /\ q.stmt.op = "select_by_email" /\ q.ret.success

\* the three failure cases of a login, by the store's rows
NoAccount(q) == \A u \in users : u.email # q.stmt.email
Inactive(q) == \E u \in users : u.email = q.stmt.email /\ ~u.is_active
WrongPassword(q) ==
    \E u \in users : u.email = q.stmt.email /\ ~bcryptCompare(q.body.password, u.password_hash)

\* C10: a login that fails because there is no account, because the account is
\* inactive or because the password does not verify gets the same response in the
\* three cases: the same status and the same body.
C10_SameFailure ==
    \A q1, q2 \in InFlight :
        /\ LookedUp(q1) /\ (NoAccount(q1) \/ Inactive(q1) \/ WrongPassword(q1))
        /\ LookedUp(q2) /\ (NoAccount(q2) \/ Inactive(q2) \/ WrongPassword(q2))
        => /\ q1.status = q2.status /\ q1.msg = q2.msg
           /\ q1.data = q2.data /\ q1.token = q2.token

\* the lookup of login q found no row
FoundNone(q) == LookedUp(q) /\ q.ret.data = {}

\* the lookup of login q found the account, and the submitted password is not the
\* account's
FoundWrongPassword(q) ==
    /\ q.route = "login" /\ q.at = "done"
    /\ q.row # NoUser
    /\ ~bcryptCompare(q.body.password, q.row.password_hash)

\* C11: a login with an existing email and an incorrect password and a login with an
\* email that does not exist get the same response: the same status and the same body,
\* so that the response does not tell which of the two cases held.
C11_NoExistenceSignal ==
    \A q1, q2 \in InFlight :
        FoundWrongPassword(q1) /\ FoundNone(q2) =>
            /\ q1.status = q2.status /\ q1.msg = q2.msg
            /\ q1.data = q2.data /\ q1.token = q2.token

\* the logins
Logins == {q \in InFlight : q.route = "login"}

\* login q may be given a token: its lookup returned a row, the account of that row is
\* active, and the submitted password verifies against the stored hash
MayLogin(q) ==
    /\ q.row # NoUser
    /\ \E u \in users : u.id = q.row.id /\ u.is_active
    /\ bcryptCompare(q.body.password, q.row.password_hash)

\* C12: a login issues a token only when the lookup returned a row, the account is
\* active and the password verifies against the stored hash; every other login is
\* answered 401, or 400 when a field is missing, and carries no token.
C12_TokenOnlyForActive ==
    \A q \in Logins :
        /\ q.token # <<>> => MayLogin(q)
        /\ q.at = "done" /\ ~MayLogin(q) => q.status \in {400, 401} /\ q.token = <<>>

\* the signups answered 201
Registered == {q \in Signups : q.status = 201}

\* the Account row that signup q created: the row of q's email, absent when q arrived,
\* holding the hash of q's password
CreatedBy(q) ==
    {u \in users : /\ u.email = emailParam(q) /\ u \notin q.seen
                    /\ bcryptCompare(q.body.password, u.password_hash)}

\* the requests for a route behind the gateway
Guarded == {q \in InFlight : q.route \in {"users", "profile", "logout"}}

\* C13: the 201 response of a signup carries a token that jwt.verify accepts with the
\* server's secret at every time before its expiry, issued for the configured
\* time-to-live, and whose id claim is the id of the one Account row the signup created
\* (the id the response reports).
C13_TokenOfCreatedAccount ==
    \A q \in Registered :
        /\ jwtDecodes(q.token)
        /\ now < jwtPayload(q.token).exp => jwtVerifies(q.token, JWT_SECRET)
        /\ jwtPayload(q.token).exp = jwtPayload(q.token).iat + TokenTtl
        /\ jwtPayload(q.token).iat >= q.arrived
        /\ \E u \in CreatedBy(q) :
              /\ jwtPayload(q.token).id = u.id
              /\ q.data.id = u.id
              /\ \A v \in users : v.id = u.id => v = u

\* C13 witness: a signup for an unused email was answered 201 while an account existed
\* already, and jwt.verify accepts its token, whose id is the new account's
C13_Witness ==
    \E q \in Registered :
        /\ q.seen = {} /\ Cardinality(users) = 2 /\ q.data.id = 2
        /\ jwtVerifies(q.token, JWT_SECRET)
        /\ jwtPayload(q.token).id = 2

\* request q has a query in flight, or a query still to issue
QueryAhead(q) ==
    \/ q.sq \in {"connecting", "querying"}
    \/ q.at = "signup.hash"
    \/ q.at = "login.compare" /\ FullApp

\* C14: once pool.end() has been started the service no longer accepts requests and no
\* request has a query in flight or a query still to issue: shutdown stops accepting,
\* lets the queries drain, and only then closes the pool.
C14_PoolClosedLast ==
    pool.ending =>
        /\ ~Accepting
        /\ \A q \in InFlight : ~QueryAhead(q)

\* the requests for a data route
DataRequests == {q \in InFlight : q.route \in {"signup", "login", "profile", "users"}}

\* q reached its route's handler: at once, or through the gateway's next()
ReachedHandler(q) == q.route \in {"signup", "login"} \/ q.nexts = 1

\* C15: when the startup probes have failed, either the process has exited and never
\* listened, or the server listens with the store marked down and every request for a
\* data route is answered 503 by its handler without giving a query to the store.
C15_DownMeans503 ==
    /\ proc.phase = "exited" => reqs = EmptyBag
    /\ ~dbConnected =>
          \A q \in DataRequests :
              /\ q.queries = 0
              /\ ReachedHandler(q) => q.status = 503

\* the token request g presented after the scheme prefix
TokenOf(g) == SubSeq(g.header, 3, Len(g.header))

\* C16: a token that a signup issued is accepted by the gateway at every time before
\* its expiry, and the claims attached to the request are the issued ones (the id and
\* email of the issuing response, its issue time and expiry); from its expiry on the
\* token is rejected with 403; a token that carries the same claims under a signature
\* segment that differs from the issued one is rejected with 403 at every time.
C16_RoundTrip ==
    \A q \in Registered, g \in Guarded :
        /\ TokenOf(g) = q.token /\ g.arrived < jwtPayload(q.token).exp =>
              /\ g.verified = 1 /\ g.nexts = 1 /\ g.status \notin {401, 403}
              /\ g.user = jwtPayload(q.token)
              /\ g.user.id = q.data.id /\ g.user.email = q.data.email
        /\ TokenOf(g) = q.token /\ g.arrived >= jwtPayload(q.token).exp =>
              g.verified = 1 /\ g.nexts = 0 /\ g.status = 403 /\ g.user = NoUser
        /\ TokenOf(g) # q.token /\ Tail(TokenOf(g)) = Tail(q.token) =>
              g.verified = 1 /\ g.nexts = 0 /\ g.status = 403 /\ g.user = NoUser

\* C16 witness: one issued token was accepted before its expiry and rejected after it,
\* and its copy with another signature segment was rejected before the expiry
C16_Witness ==
    \E q \in Registered, g1, g2, g3 \in Guarded :
        /\ TokenOf(g1) = q.token /\ g1.arrived < jwtPayload(q.token).exp /\ g1.nexts = 1
        /\ TokenOf(g2) = q.token /\ g2.arrived > jwtPayload(q.token).exp /\ g2.status = 403
        /\ TokenOf(g3) = Tamper(q.token) /\ g3.arrived < jwtPayload(q.token).exp
        /\ g3.status = 403

\* the gateway accepts the held token from every request that arrives before its expiry,
\* and a logout gives no query to the store
HeldTokenAccepted ==
    \A g \in Guarded :
        /\ TokenOf(g) = HeldToken /\ g.arrived < jwtPayload(HeldToken).exp =>
              /\ g.verified = 1 /\ g.nexts = 1 /\ g.status \notin {401, 403}
              /\ g.user = jwtPayload(HeldToken)
        /\ g.route = "logout" => g.queries = 0 /\ g.acquired = 0

\* a step in which a logout request is handled
LogoutStep ==
    \E q \in BagToSet(reqs') :
        q.route = "logout" /\ CopiesIn(q, reqs') > CopiesIn(q, reqs)

\* C17: verification is stateless and nothing revokes a token: whatever logouts were
\* answered and whether or not its account was deactivated, a token is accepted by the
\* gateway at every time before its expiry; and handling a logout changes no state of
\* the server or of the store.
C17_NoRevocation ==
    /\ []HeldTokenAccepted
    /\ [][LogoutStep => UNCHANGED <<build, dbConnected, pool, users, now, proc>>]_vars

\* C17 witness: after a logout with the token was answered 200 and the account was
\* deactivated, a later request with the same token passed the gateway and was served
C17_Witness ==
    \E l, g \in Guarded :
        /\ l.route = "logout" /\ l.status = 200 /\ TokenOf(l) = HeldToken
        /\ g.route = "users" /\ TokenOf(g) = HeldToken /\ g.arrived > l.arrived
        /\ g.nexts = 1 /\ g.status = 200 /\ g.data = {}
        /\ \A u \in users : ~u.is_active

\* login l arrived after a signup of this behaviour had created the account of its
\* email; p is the password of that signup
AfterSignup(l, p) ==
    /\ l.route = "login" /\ l.at = "done" /\ l.seen # {}
    /\ \E s \in Registered : l.seen = CreatedBy(s) /\ s.body.password = p

Passwords == {b.password : b \in RoundTripLoginBodies}

Updated(l) == l.route = "login" /\ l.at = "done" /\ l.stmt.op = "update_last_login"

\* C19: a login that reached the update of the last-login timestamp is answered 200
\* with the user and a token for the account whether the update succeeded or failed:
\* the two responses are the same.
C19_UpdateBestEffort ==
    /\ \A l \in Logins :
          Updated(l) =>
              /\ l.status = 200 /\ l.msg = "Login successful" /\ l.sent = 1
              /\ l.data = Columns(l.row, {"id", "name", "email"})
              /\ jwtVerifies(l.token, JWT_SECRET) /\ jwtPayload(l.token).id = l.row.id
    /\ \A l1, l2 \in Logins :
          Updated(l1) /\ Updated(l2) /\ l1.row = l2.row =>
              /\ l1.status = l2.status /\ l1.msg = l2.msg
              /\ l1.data = l2.data /\ l1.token = l2.token

\* C19 witness: of two logins to one account, one's update failed and the other's
\* succeeded, and both were answered 200
C19_Witness ==
    \E l1, l2 \in Logins :
        /\ Updated(l1) /\ ~l1.ret.success /\ l1.status = 200
        /\ Updated(l2) /\ l2.ret.success /\ l2.status = 200
        /\ l1.row = l2.row
        /\ \E u \in users : u.id = l2.row.id /\ u.last_login = now

C21_NoDoubleRelease ==
    /\ \A q \in InFlight :
          /\ q.released <= q.acquired
          /\ Held(q) \in {0, 1}
    /\ pool.checkedOut >= 0
    /\ pool.checkedOut = TotalHeld

\* C21 witness: a probe whose query failed after pool.connect() had given it a handle,
\* a safeQuery call whose query failed likewise and a probe that succeeded have each
\* released their handle once
C21_Witness ==
    \E q1, q2, q3 \in InFlight :
        /\ q1.fn = "testConnection" /\ q1.probe = "false"
        /\ q1.acquired = 1 /\ q1.released = 1
        /\ q2.fn = "safeQuery" /\ q2.ret = [success |-> FALSE, error |-> QueryError]
        /\ q2.acquired = 1 /\ q2.released = 1
        /\ q3.fn = "testConnection" /\ q3.probe = "true"
        /\ q3.acquired = 1 /\ q3.released = 1

\* the db function of q has returned to its caller
DbReturned(q) == q.fn \in {"safeQuery", "testConnection"} /\ q.sq = "none"

\* what the caller of q's db function got back: safeQuery's result, the probe's boolean
Reported(q) == IF q.fn = "safeQuery" THEN q.ret ELSE [value |-> q.probe]

\* the db function of q reported a failure
ReportedFailure(q) ==
    /\ DbReturned(q)
    /\ IF q.fn = "safeQuery" THEN ~q.ret.success ELSE q.probe = "false"

\* the failure was one of acquisition: pool.connect() gave the call no client
FailedAcquiring(q) == ReportedFailure(q) /\ q.acquired = 0

\* the failure was one of execution: the call had its client and the statement failed
FailedQuerying(q) == ReportedFailure(q) /\ q.acquired = 1

\* C22: a caller can tell a failure to acquire a connection from a failure of the
\* statement: of two calls of the same function, one that failed in pool.connect() and
\* one that failed in client.query(), the callers are not given the same value.
C22_DistinctReason ==
    \A q1, q2 \in InFlight :
        q1.fn = q2.fn /\ FailedAcquiring(q1) /\ FailedQuerying(q2) =>
            Reported(q1) # Reported(q2)

\* the last statement that login, profile or signup q gave to safeQuery came back as a
\* failure-tagged result (the best-effort update of last_login apart, see C19)
StorageFailed(q) ==
    /\ q.route \in {"login", "profile", "signup"} /\ q.at = "done"
    /\ q.fn = "safeQuery" /\ q.queries > 0
    /\ ~q.ret.success
    /\ q.stmt.op # "update_last_login"

\* C23: a login, profile or signup request whose query came back from safeQuery as a
\* storage failure is answered with a server-fault status (5xx), never with a
\* client-fault status such as 401, 404 or 409.
C23_StorageFailureIs5xx ==
    \A q \in InFlight : StorageFailed(q) => q.status >= 500 /\ q.status <= 599

\* the fields of the account data in q's response payload: of each row when the
\* payload is a list of rows
PayloadFields(q) ==
    IF q.route \in {"users", "list"} /\ q.status = 200
    THEN UNION {DOMAIN r : r \in q.data}
    ELSE DOMAIN q.data

\* the fields of an account summary
SummaryFields == {"id", "name", "email", "created_at"}

ProbeReturned(q) == q.fn = "testConnection" /\ q.sq = "none"

\* C25: the probe gives the connection it acquired back to the pool on every exit path,
\* the one where pool.connect() succeeded and the probe's query failed included: a
\* probe that has returned holds no connection, and when every probe has returned the
\* pool has no connection checked out.
C25_ProbeReleases ==
    /\ \A q \in InFlight : ProbeReturned(q) => Held(q) = 0
    /\ (\A q \in InFlight : ProbeReturned(q)) => pool.checkedOut = 0

\* a probe of startServer is in flight
StartupProbing == \E q \in InFlight : q.route = "startup"

\* the retry loop has ended
LoopEnded == proc.phase \notin {"starting", "waiting"}

\* the loop's counts: between one and 3 probes; a wait before every probe but the first
\* and after none; no probe after one that succeeded; requests only once it has ended;
\* afterwards dbConnected is true iff a probe succeeded
RetryLoopBounded ==
    /\ proc.probes >= 1 /\ proc.probes <= 3
    /\ proc.waits = (IF proc.phase = "waiting" THEN proc.probes ELSE proc.probes - 1)
    /\ proc.phase = "waiting" => proc.probes < 3 /\ ~StartupProbing
    /\ proc.succeeded => LoopEnded /\ proc.probes = proc.retryCount + 1
    /\ LoopEnded =>
          /\ ~StartupProbing
          /\ proc.succeeded \/ proc.probes = 3
          /\ dbConnected = proc.succeeded
    /\ ~LoopEnded => ~Accepting /\ ~dbConnected /\ \A q \in InFlight : q.route = "startup"

\* C26: the startup retry loop terminates: it makes at least one and at most 3 probes,
\* stops at the first probe that succeeds, waits only between two attempts and never
\* after the last, the http server listens only after the loop has ended (and does
\* listen in the end), and dbConnected is true afterwards iff some probe succeeded.
C26_RetryLoopTerminates == []RetryLoopBounded /\ <>Accepting

\* C26 witness: two probes failed, each followed by a wait, the third succeeded, and
\* the server listens with dbConnected true
C26_Witness ==
    /\ Accepting /\ dbConnected
    /\ proc.probes = 3 /\ proc.waits = 2 /\ proc.retryCount = 2 /\ proc.succeeded

\* the requests that reached the handler of the guarded route GET /api/users
GuardedUsers == {q \in InFlight : q.route = "users" /\ q.nexts = 1}

\* the guard follows the flag: a request that reached a guarded handler is answered 503,
\* without a query, exactly when dbConnected is false
GuardFollowsFlag ==
    \A q \in GuardedUsers :
        /\ q.status = 503 <=> ~dbConnected
        /\ q.status = 503 => q.queries = 0 /\ q.msg = "Database not connected"

\* a step that changes dbConnected is startServer's, taking the value of its probe
WrittenByStartup ==
    dbConnected' # dbConnected =>
        /\ ~LoopEnded
        /\ \E q \in InFlight : q.at = "startup.returned" /\ CopiesIn(q, reqs') = 0

\* C27: dbConnected is written only by the startup retry loop: once startup is over no
\* step (no request handler, /health and /api/test-db included, and no answer of the
\* store) changes it, so a server that started degraded answers 503 on its guarded
\* route from then on, whatever the store does later, and a server that started
\* connected never answers 503 from the guard.
C27_FlagFrozenAfterStartup ==
    /\ []GuardFollowsFlag
    /\ [][WrittenByStartup]_vars
    /\ [][LoopEnded => dbConnected' = dbConnected]_vars

\* C27 witness: the server started degraded; since then /api/test-db has found the
\* store reachable, the flag is still false and a request for the guarded route was
\* answered 503
C27_Witness ==
    /\ Accepting /\ ~dbConnected /\ proc.probes = 3
    /\ \E q1, q2 \in InFlight :
           /\ q1.route = "test-db" /\ q1.at = "done" /\ q1.probe = "true"
           /\ q2 \in GuardedUsers /\ q2.status = 503

\* q has been answered with a rejection: 400 or 409 for a signup, 400 or 401 for a login
Rejected(q) ==
    \/ q.route = "signup" /\ q.status \in {400, 409}
    \/ q.route = "login" /\ q.status \in {400, 401}

\* a rejected request is over and gave the store no statement that writes: none at all
\* when the answer is 400, its one SELECT otherwise
RejectedWroteNothing ==
    \A q \in InFlight :
        Rejected(q) =>
            /\ q.at = "done" /\ q.sq = "none"
            /\ q.stmt.op \in {"none", "select_by_email"}
            /\ q.queries <= 1
            /\ q.status = 400 => q.queries = 0 /\ q.acquired = 0

\* a step that changes the Account rows runs the INSERT or the UPDATE of a request that
\* had not been answered, and that request is answered 201 or 200 in the same step
WrittenBySuccess ==
    users' # users =>
        \E q \in InFlight :
            /\ q.sq = "querying" /\ q.status = 0
            /\ q.stmt.op \in {"insert_user", "update_last_login"}
            /\ CopiesIn(q, reqs') < CopiesIn(q, reqs)
            /\ \E r \in BagToSet(reqs') :
                   /\ CopiesIn(r, reqs') > CopiesIn(r, reqs)
                   /\ r.route = q.route /\ r.status \in {200, 201}

\* C28: rejected requests have no effect on the store: a signup answered 400 or 409
\* and a login answered 400 or 401 have run no INSERT and no UPDATE of last_login, the
\* Account rows change only in the step that answers a signup 201 or a login 200, and
\* a signup or login answered 400 has run no query at all.
C28_RejectedNoEffect ==
    /\ []RejectedWroteNothing
    /\ [][WrittenBySuccess]_vars

\* C28 witness: a signup for the present email was answered 409 and a login with a
\* wrong password 401, each after its SELECT, and the account's row is as it was
C28_Witness ==
    /\ users = {Account(EmailA, TRUE)}
    /\ \E q1, q2 \in InFlight :
           /\ q1.route = "signup" /\ q1.status = 409 /\ q1.queries = 1
           /\ q2.route = "login" /\ q2.status = 401 /\ q2.row # NoUser
           /\ q2.body.password = "wrong11"

\* the process has exited with code 0
ExitedClean == proc.phase = "exited" /\ proc.exitCode = 0

\* C29: after SIGINT or SIGTERM the process exits with code 0 only when both handlers
\* are through: the http server has finished closing, every request it had accepted
\* having been answered, and closePool has been called and has completed; neither
\* handler calls process.exit while the other still has work to do.
C29_ExitAfterBothHandlers ==
    FullApp /\ ExitedClean =>
        /\ proc.closed
        /\ \A q \in InFlight : q.at = "done"
        /\ pool.ending /\ pool.checkedOut = 0

\* q has been answered
Answered(q) == q.at = "done"

\* the responses sent so far, and the requests that have one
ResponsesSent == BagCardinality([q \in {x \in InFlight : x.sent > 0} |-> CopiesIn(q, reqs)])

\* no request has more than one response, and a handler that is over has sent one
AtMostOneResponse ==
    \A q \in InFlight :
        /\ q.sent <= 1
        /\ Answered(q) <=> q.sent = 1

\* C30: every accepted request eventually receives exactly one response, whatever the
\* outcome of each of its acquisitions and queries, as long as each of them settles:
\* no handler path sends two responses, none takes a response back, and none ends or
\* waits for ever without sending one.
C30_ExactlyOneResponse ==
    /\ []AtMostOneResponse
    /\ [][ResponsesSent' >= ResponsesSent]_vars
    /\ \A n \in 1..NumRequests : (BagCardinality(reqs) >= n) ~> (ResponsesSent >= n)

\* a signup is answered 500 after its insert failed, a login 401 after its lookup
\* failed, and a request without a token 401 by the gateway: one response each
C30_Witness ==
    /\ BagCardinality(reqs) = NumRequests
    /\ \A q \in InFlight : Answered(q) /\ q.sent = 1
    /\ \E q \in InFlight : q.route = "signup" /\ q.status = 500 /\ q.queries = 2
    /\ \E q \in InFlight : q.status = 401 /\ (q.route = "users" \/ (q.route = "login" /\ ~q.ret.success))

====
